---- MODULE Spec2Model ----
(***************************************************************************)
(* The `run` command of schemathesis' command line (cli/__init__.py): the  *)
(* click boundary, check selection, credential resolution, option pruning, *)
(* the scoped stdout capture around runner.execute, the report and the     *)
(* exit status.  Python values are tagged records, so that bool(value) is  *)
(* computed the way Python computes it.                                    *)
(***************************************************************************)
EXTENDS Naturals, Sequences, FiniteSets, TLC

\* ---------------------------------------------------------------- bounds
\* number of `run` invocations in one process
MaxRuns == 2
\* number of chunks the engine writes to sys.stdout during one call
MaxWrites == 2
\* number of -c/--checks occurrences on one command line
MaxChecksArgs == 2

\* ------------------------------------------------------- Python values
None == [t |-> "none"]
Str(s) == [t |-> "str", v |-> s]
Tuple(s) == [t |-> "tuple", v |-> s]
Dict(f) == [t |-> "dict", v |-> f]
HTTPDigestAuth(username, password) ==
    [t |-> "obj", cls |-> "HTTPDigestAuth", v |-> <<username, password>>]

EmptyMap == [k \in {} |-> None]

\* bool(value): None, "", (), {} and False are falsy, every other value
\* (an HTTPDigestAuth object included) is truthy.
Truthy(x) ==
    CASE x.t = "none" -> FALSE
      [] x.t = "str" -> x.v # ""
      [] x.t = "tuple" -> Len(x.v) > 0
      [] x.t = "dict" -> DOMAIN x.v # {}
      [] x.t = "bool" -> x.v
      [] OTHER -> TRUE

\* utils.dict_true_values(**kwargs): the entries whose value is truthy.
dict_true_values(kwargs) ==
    [k \in {key \in DOMAIN kwargs : Truthy(kwargs[key])} |-> kwargs[k]]

\* value.get(key)
Get(value, key) == IF key \in DOMAIN value THEN [t |-> "bool", v |-> value[key]] ELSE None

\* ------------------------------------------------------------ the checks
\* runner.DEFAULT_CHECKS, in the engine's order; a check is known by its __name__.
DEFAULT_CHECKS == <<"not_a_server_error", "status_code_conformance">>

\* tuple(check.__name__ for check in runner.DEFAULT_CHECKS)
DEFAULT_CHECKS_NAMES == DEFAULT_CHECKS

InTuple(x, s) == \E i \in 1..Len(s) : s[i] = x

\* SelectedChecks iterating over the requested names instead of the engine's tuple
SelectedChecksInRequestOrder(checks) ==
    SelectSeq(checks, LAMBDA name : InTuple(name, DEFAULT_CHECKS))

\* tuple(check for check in runner.DEFAULT_CHECKS if check.__name__ in checks)
SelectedChecks(checks) ==
    SelectSeq(DEFAULT_CHECKS, LAMBDA check : InTuple(check, checks))

\* --------------------------------------------------- the click boundary
\* str.lower() on the spellings a command line may give
Lower(s) ==
    CASE s = "DIGEST" -> "digest"
      [] s = "BASIC" -> "basic"
      [] OTHER -> s

AuthTypeChoices == {"basic", "digest"}

\* the spellings of -A/--auth-type tried; None stands for an omitted option
RawAuthTypes == {None, Str("basic"), Str("digest"), Str("DIGEST"), Str("bearer")}

\* ChoiceConvert handing on the spelling it was given
ChoiceConvertKeepsCase(raw) ==
    IF raw.t = "none" THEN Str("basic")
    ELSE IF Lower(raw.v) \in AuthTypeChoices THEN raw
    ELSE None

\* click.Choice(["basic", "digest"], case_sensitive=False).convert with
\* default="basic": the lower-cased value when it is a choice, else a usage error.
ChoiceConvert(raw) ==
    IF raw.t = "none" THEN Str("basic")
    ELSE IF Lower(raw.v) \in AuthTypeChoices THEN Str(Lower(raw.v))
    ELSE None

\* -a/--auth values tried
RawAuths == {None, Str("admin:secret")}

\* validators.validate_auth: "user:password" split once into a pair
validate_auth(raw) ==
    IF raw.t = "none" THEN None
    ELSE CASE raw.v = "admin:secret" -> Tuple(<<"admin", "secret">>)

\* -H/--header values tried
RawHeaders == {<<>>, <<"X-Test: 1">>}

\* validators.validate_headers: "Name: Value" strings into a dict
validate_headers(raw) ==
    IF raw = <<>> THEN Dict(EmptyMap) ELSE Dict([k \in {"X-Test"} |-> "1"])

RawEndpoints == {<<>>, <<"/users/\\d+">>}
RawMethods == {<<>>, <<"GET">>}
RawBaseUrls == {None, Str(""), Str("http://127.0.0.1:8080")}
SchemaLocation == "https://api.example.com/openapi.json"

RECURSIVE SeqsUpTo(_, _)
SeqsUpTo(S, n) ==
    IF n = 0 THEN {<<>>}
    ELSE LET shorter == SeqsUpTo(S, n - 1)
         IN shorter \cup {Append(s, x) : s \in shorter, x \in S}

\* the -c/--checks occurrences of one command line, each one of the Choice's names
RawChecks == SeqsUpTo({DEFAULT_CHECKS_NAMES[i] : i \in 1..Len(DEFAULT_CHECKS_NAMES)}, MaxChecksArgs)

\* ChecksOption without the option's default
ChecksOptionNoDefault(raw) == raw

\* multiple=True, default=DEFAULT_CHECKS_NAMES: no occurrence gives the default
ChecksOption(raw) == IF raw = <<>> THEN DEFAULT_CHECKS_NAMES ELSE raw

\* every command line `run SCHEMA [options]` over the values above
AllCommandLines ==
    [auth : RawAuths, auth_type : RawAuthTypes, headers : RawHeaders, checks : RawChecks,
     endpoints : RawEndpoints, methods : RawMethods, base_url : RawBaseUrls]

\* `run SCHEMA`
SchemaOnly ==
    [auth |-> None, auth_type |-> None, headers |-> <<>>, checks |-> <<>>,
     endpoints |-> <<>>, methods |-> <<>>, base_url |-> None]

\* `run SCHEMA --auth admin:secret --auth-type digest --header "X-Test: 1" --endpoint "/users/\d+"`
DigestScenario ==
    [auth |-> Str("admin:secret"), auth_type |-> Str("digest"), headers |-> <<"X-Test: 1">>,
     checks |-> <<>>, endpoints |-> <<"/users/\\d+">>, methods |-> <<>>, base_url |-> None]

\* ------------------------------------------------------------ the engine
OutcomeRecords == {[details |-> "d"], [details |-> "d", error |-> FALSE], [details |-> "d", error |-> TRUE]}
\* the endpoints of the schema under test
EndpointIds == {"e1", "e2"}
\* stats.data: endpoint -> outcome record, for the endpoints that were tested
StatsData == UNION {[S -> OutcomeRecords] : S \in SUBSET EndpointIds}

\* AnyError with the flag's presence taken for its value
AnyErrorKeyPresent(data) == \E e \in DOMAIN data : "error" \in DOMAIN data[e]

\* any(value.get("error") for value in stats.data.values())
AnyError(data) == \E e \in DOMAIN data : Truthy(Get(data[e], "error"))

\* ----------------------------------------------------------------- state
VARIABLES
    pc,             \* position of the current invocation in run()
    run,            \* number of invocations started in this process
    args,           \* what click passes to run()
    selected_checks,
    auth,           \* run()'s local `auth` (reassigned on line 84)
    options,
    engine_call,    \* the arguments runner.execute was called with
    captures,       \* active stdout_listener scopes: a stack of [old, buf]
    sys_stdout,     \* 0: the real stdout; i: the StringIO of captures[i]
    written,        \* what the engine wrote during the current call
    stats,
    hypothesis_out,
    trace,          \* this invocation's events and lines on the real stdout
    result,         \* how the invocation ended
    engine_outcome, \* how runner.execute ended in this invocation
    earlier_raise   \* an earlier invocation's engine call wrote text and raised

vars == <<pc, run, args, selected_checks, auth, options, engine_call, captures,
          sys_stdout, written, stats, hypothesis_out, trace, result,
          engine_outcome, earlier_raise>>

NoArgs == [given |-> FALSE]
NoCall == [called |-> FALSE]
NoStats == [returned |-> FALSE]

Init ==
    /\ pc = "idle"
    /\ run = 0
    /\ args = NoArgs
    /\ selected_checks = <<>>
    /\ auth = None
    /\ options = EmptyMap
    /\ engine_call = NoCall
    /\ captures = <<>>
    /\ sys_stdout = 0
    /\ written = <<>>
    /\ stats = NoStats
    /\ hypothesis_out = None
    /\ trace = <<>>
    /\ result = "none"
    /\ engine_outcome = "none"
    /\ earlier_raise = FALSE

\* ------------------------------------------------- writes to sys.stdout
\* click.echo and print write to whatever sys.stdout currently is: a line on
\* the real stdout is an event of the trace, a line written while a StringIO
\* is installed lands in that StringIO.
EchoTrace(tr, ev) == IF sys_stdout = 0 THEN Append(tr, ev) ELSE tr
EchoCaptures(cs, text) ==
    IF sys_stdout = 0 THEN cs
    ELSE [cs EXCEPT ![sys_stdout].buf = Append(@, [run |-> run, text |-> text])]

\* utils.stdout_listener().__enter__: a fresh StringIO is installed as
\* sys.stdout and the previous target remembered.
AcquiredCaptures == Append(captures, [old |-> sys_stdout, buf |-> <<>>])
AcquiredStdout == Len(captures) + 1

\* utils.stdout_listener().__exit__: the previous target is put back and the
\* StringIO dropped.
ReleasedCaptures == SubSeq(captures, 1, Len(captures) - 1)
ReleasedStdout == captures[Len(captures)].old

\* get_stdout(): the text in the StringIO of the scope entered last
get_stdout == [t |-> "text", v |-> captures[Len(captures)].buf]

\* ------------------------------------------------------------- actions
\* click parses the command line (lines 22-64) and calls run().
Invoke(cl) ==
    /\ pc = "idle"
    /\ run < MaxRuns
    /\ ChoiceConvert(cl.auth_type).t # "none"
    /\ run' = run + 1
    /\ args' = [given |-> TRUE,
                cl |-> cl,
                schema |-> SchemaLocation,
                auth |-> validate_auth(cl.auth),
                auth_type |-> ChoiceConvert(cl.auth_type),
                headers |-> validate_headers(cl.headers),
                checks |-> ChecksOption(cl.checks),
                endpoints |-> Tuple(cl.endpoints),
                methods |-> Tuple(cl.methods),
                base_url |-> cl.base_url]
    /\ auth' = validate_auth(cl.auth)
    /\ pc' = "line79"
    /\ UNCHANGED <<selected_checks, options, engine_call, captures, sys_stdout,
                   written, stats, hypothesis_out, trace, result>>
    /\ UNCHANGED <<engine_outcome, earlier_raise>>

\* click rejects a value of --auth-type that is no choice: run() is not called.
UsageError(cl) ==
    /\ pc = "idle"
    /\ run < MaxRuns
    /\ ChoiceConvert(cl.auth_type).t = "none"
    /\ run' = run + 1
    /\ result' = "usage_error"
    /\ pc' = "done"
    /\ UNCHANGED <<args, auth, selected_checks, options, engine_call, captures,
                   sys_stdout, written, stats, hypothesis_out, trace>>
    /\ UNCHANGED <<engine_outcome, earlier_raise>>

\* lines 79-81
SelectChecks ==
    /\ pc = "line79"
    /\ selected_checks' = SelectedChecks(args.checks)
    /\ trace' = EchoTrace(trace, "echo_running")
    /\ captures' = EchoCaptures(captures, "Running schemathesis test cases ...")
    /\ pc' = "line83"
    /\ UNCHANGED <<run, args, auth, options, engine_call, sys_stdout, written,
                   stats, hypothesis_out, result>>
    /\ UNCHANGED <<engine_outcome, earlier_raise>>

\* lines 83-84
ResolveAuth ==
    /\ pc = "line83"
    /\ auth' = IF Truthy(auth) /\ args.auth_type = Str("digest")
               THEN HTTPDigestAuth(auth.v[1], auth.v[2])
               ELSE auth
    /\ pc' = "line86"
    /\ UNCHANGED <<run, args, selected_checks, options, engine_call, captures,
                   sys_stdout, written, stats, hypothesis_out, trace, result>>
    /\ UNCHANGED <<engine_outcome, earlier_raise>>

\* BuildOptions without the outer dict_true_values
BuildOptionsUnpruned ==
    /\ pc = "line86"
    /\ options' =
          [api_options |-> Dict(dict_true_values(
               [base_url |-> args.base_url, auth |-> auth, headers |-> args.headers])),
           loader_options |-> Dict(dict_true_values(
               [endpoint |-> args.endpoints, method |-> args.methods]))]
    /\ pc' = "line91"
    /\ UNCHANGED <<run, args, selected_checks, auth, engine_call, captures,
                   sys_stdout, written, stats, hypothesis_out, trace, result>>
    /\ UNCHANGED <<engine_outcome, earlier_raise>>

\* lines 86-89
BuildOptions ==
    /\ pc = "line86"
    /\ options' = dict_true_values(
          [api_options |-> Dict(dict_true_values(
               [base_url |-> args.base_url, auth |-> auth, headers |-> args.headers])),
           loader_options |-> Dict(dict_true_values(
               [endpoint |-> args.endpoints, method |-> args.methods]))])
    /\ pc' = "line91"
    /\ UNCHANGED <<run, args, selected_checks, auth, engine_call, captures,
                   sys_stdout, written, stats, hypothesis_out, trace, result>>
    /\ UNCHANGED <<engine_outcome, earlier_raise>>

\* line 91: with utils.stdout_listener() as get_stdout
EnterCapture ==
    /\ pc = "line91"
    /\ captures' = AcquiredCaptures
    /\ sys_stdout' = AcquiredStdout
    /\ trace' = Append(trace, "acquire")
    /\ pc' = "line92"
    /\ UNCHANGED <<run, args, selected_checks, auth, options, engine_call,
                   written, stats, hypothesis_out, result>>
    /\ UNCHANGED <<engine_outcome, earlier_raise>>

\* line 92: runner.execute(schema, checks=selected_checks, **options) is entered
ExecuteCall ==
    /\ pc = "line92"
    /\ engine_call' = [called |-> TRUE, schema |-> args.schema,
                       checks |-> selected_checks, kwargs |-> options]
    /\ trace' = Append(trace, "execute")
    /\ pc' = "engine"
    /\ UNCHANGED <<run, args, selected_checks, auth, options, captures,
                   sys_stdout, written, stats, hypothesis_out, result>>
    /\ UNCHANGED <<engine_outcome, earlier_raise>>

\* the engine prints a chunk of diagnostic text
EngineWrite ==
    /\ pc = "engine"
    /\ Len(written) < MaxWrites
    /\ written' = Append(written, [run |-> run, text |-> "diag"])
    /\ trace' = EchoTrace(trace, "diag")
    /\ captures' = EchoCaptures(captures, "diag")
    /\ UNCHANGED <<pc, run, args, selected_checks, auth, options, engine_call,
                   sys_stdout, stats, hypothesis_out, result>>
    /\ UNCHANGED <<engine_outcome, earlier_raise>>

\* line 92: runner.execute returns the statistics
EngineReturn(data) ==
    /\ pc = "engine"
    /\ stats' = [returned |-> TRUE, data |-> data]
    /\ pc' = "line93"
    /\ UNCHANGED <<run, args, selected_checks, auth, options, engine_call,
                   captures, sys_stdout, written, hypothesis_out, trace, result>>
    /\ engine_outcome' = "returned"
    /\ UNCHANGED earlier_raise

\* EngineRaise with the capture entered and left by hand, the exit not in a finally
EngineRaiseKeepsCapture ==
    /\ pc = "engine"
    /\ result' = "exception"
    /\ pc' = "done"
    /\ engine_outcome' = "raised"
    /\ UNCHANGED <<run, args, selected_checks, auth, options, engine_call, captures,
                   sys_stdout, written, stats, hypothesis_out, trace, earlier_raise>>

\* EngineRaise with the engine's exception caught and reported as a failed run
EngineRaiseSwallowed ==
    /\ pc = "engine"
    /\ captures' = ReleasedCaptures
    /\ sys_stdout' = ReleasedStdout
    /\ trace' = trace \o <<"release", "banner_failed">>
    /\ result' = "exit1"
    /\ pc' = "done"
    /\ engine_outcome' = "raised"
    /\ UNCHANGED <<run, args, selected_checks, auth, options, engine_call,
                   written, stats, hypothesis_out, earlier_raise>>

\* lines 91-92: runner.execute raises; the with statement runs the listener's
\* __exit__ and the exception leaves run() (lines 93-102 are skipped).
EngineRaise ==
    /\ pc = "engine"
    /\ captures' = ReleasedCaptures
    /\ sys_stdout' = ReleasedStdout
    /\ trace' = Append(trace, "release")
    /\ result' = "exception"
    /\ pc' = "done"
    /\ UNCHANGED <<run, args, selected_checks, auth, options, engine_call,
                   written, stats, hypothesis_out>>
    /\ engine_outcome' = "raised"
    /\ UNCHANGED earlier_raise

\* line 93
GetStdout ==
    /\ pc = "line93"
    /\ hypothesis_out' = get_stdout
    /\ trace' = Append(trace, "read")
    /\ pc' = "with_exit"
    /\ UNCHANGED <<run, args, selected_checks, auth, options, engine_call,
                   captures, sys_stdout, written, stats, result>>
    /\ UNCHANGED <<engine_outcome, earlier_raise>>

\* lines 91-93: the with block is left normally
ExitCapture ==
    /\ pc = "with_exit"
    /\ captures' = ReleasedCaptures
    /\ sys_stdout' = ReleasedStdout
    /\ trace' = Append(trace, "release")
    /\ pc' = "line95"
    /\ UNCHANGED <<run, args, selected_checks, auth, options, engine_call,
                   written, stats, hypothesis_out, result>>
    /\ UNCHANGED <<engine_outcome, earlier_raise>>

\* lines 95-96: output.pretty_print_stats(stats, hypothesis_out=...), click.echo()
PrettyPrint ==
    /\ pc = "line95"
    /\ trace' = EchoTrace(EchoTrace(trace, "report"), "echo_blank")
    /\ captures' = EchoCaptures(EchoCaptures(captures, "report"), "")
    /\ pc' = "line98"
    /\ UNCHANGED <<run, args, selected_checks, auth, options, engine_call,
                   sys_stdout, written, stats, hypothesis_out, result>>
    /\ UNCHANGED <<engine_outcome, earlier_raise>>

\* TestsFailed without the raise of line 100: control falls through to line 102
TestsFailedFallsThrough ==
    /\ pc = "line98"
    /\ AnyError(stats.data)
    /\ trace' = EchoTrace(EchoTrace(trace, "banner_failed"), "banner_succeeded")
    /\ captures' = EchoCaptures(EchoCaptures(captures, "Tests failed."), "Tests succeeded.")
    /\ result' = "exit0"
    /\ pc' = "done"
    /\ UNCHANGED <<run, args, selected_checks, auth, options, engine_call,
                   sys_stdout, written, stats, hypothesis_out>>
    /\ UNCHANGED <<engine_outcome, earlier_raise>>

\* lines 98-100
TestsFailed ==
    /\ pc = "line98"
    /\ AnyError(stats.data)
    /\ trace' = EchoTrace(trace, "banner_failed")
    /\ captures' = EchoCaptures(captures, "Tests failed.")
    /\ result' = "exit1"
    /\ pc' = "done"
    /\ UNCHANGED <<run, args, selected_checks, auth, options, engine_call,
                   sys_stdout, written, stats, hypothesis_out>>
    /\ UNCHANGED <<engine_outcome, earlier_raise>>

\* lines 98, 102
TestsSucceeded ==
    /\ pc = "line98"
    /\ ~AnyError(stats.data)
    /\ trace' = EchoTrace(trace, "banner_succeeded")
    /\ captures' = EchoCaptures(captures, "Tests succeeded.")
    /\ result' = "exit0"
    /\ pc' = "done"
    /\ UNCHANGED <<run, args, selected_checks, auth, options, engine_call,
                   sys_stdout, written, stats, hypothesis_out>>
    /\ UNCHANGED <<engine_outcome, earlier_raise>>

\* the invocation is over: its frame (arguments, locals, result) is gone; what
\* the process keeps is sys.stdout and whatever capture is still installed.
Leave ==
    /\ pc = "done"
    /\ pc' = "idle"
    /\ args' = NoArgs
    /\ auth' = None
    /\ selected_checks' = <<>>
    /\ options' = EmptyMap
    /\ engine_call' = NoCall
    /\ written' = <<>>
    /\ stats' = NoStats
    /\ hypothesis_out' = None
    /\ trace' = <<>>
    /\ result' = "none"
    /\ UNCHANGED <<run, captures, sys_stdout>>
    /\ engine_outcome' = "none"
    /\ earlier_raise' = (earlier_raise \/ (engine_outcome = "raised" /\ written # <<>>))

Next ==
    \/ pc = "idle" /\ \E cl \in AllCommandLines : Invoke(cl)
    \/ pc = "idle" /\ \E cl \in AllCommandLines : UsageError(cl)
    \/ SelectChecks
    \/ ResolveAuth
    \/ BuildOptions
    \/ EnterCapture
    \/ ExecuteCall
    \/ EngineWrite
    \/ pc = "engine" /\ \E data \in StatsData : EngineReturn(data)
    \/ EngineRaise
    \/ GetStdout
    \/ ExitCapture
    \/ PrettyPrint
    \/ TestsFailed
    \/ TestsSucceeded
    \/ Leave

Spec == Init /\ [][Next]_vars

\* ------------------------------------------------------- the properties
\* an outcome record whose `error` flag is set and true
HasErrorRecord(data) ==
    \E e \in DOMAIN data : "error" \in DOMAIN data[e] /\ data[e].error = TRUE

\* the empty values: "", (), {}, None, False
IsEmptyValue(x) ==
    x \in {None, Str(""), Tuple(<<>>), Dict(EmptyMap), [t |-> "bool", v |-> FALSE]}

IsPrefix(s, t) == Len(s) <= Len(t) /\ \A i \in 1..Len(s) : s[i] = t[i]

\* control is inside the with block of lines 91-93
InCaptureScope == pc \in {"line92", "engine", "line93", "with_exit"}

\* C1: whenever the engine returned statistics and the invocation is over, the
\* exit status is 0 iff no outcome record has a true `error` flag (a record
\* without the flag is no error) and 1 otherwise; empty statistics exit with 0.
C1_ExitStatusDecision ==
    (pc = "done" /\ engine_outcome = "returned") =>
        /\ result \in {"exit0", "exit1"}
        /\ (result = "exit0") <=> ~HasErrorRecord(stats.data)
        /\ (result = "exit1") <=> HasErrorRecord(stats.data)
        /\ (DOMAIN stats.data = {}) => result = "exit0"

\* the statistics {"e1": {error: false}, "e2": {error: true}} ended with status 1
C1_Witness ==
    /\ pc = "done"
    /\ engine_outcome = "returned"
    /\ DOMAIN stats.data = {"e1", "e2"}
    /\ stats.data["e1"] = [details |-> "d", error |-> FALSE]
    /\ stats.data["e2"] = [details |-> "d", error |-> TRUE]
    /\ result = "exit1"

\* C2: outside the with block of lines 91-93 no capture is held and sys.stdout
\* is the real stdout again, whether runner.execute returned or raised; inside
\* the block exactly this invocation's capture is installed.
C2_CaptureReleasedOnEveryExit ==
    /\ ~InCaptureScope => (captures = <<>> /\ sys_stdout = 0)
    /\ InCaptureScope => (Len(captures) = 1 /\ sys_stdout = 1)

\* the engine wrote text and raised, and the capture is gone
C2_Witness ==
    /\ pc = "done"
    /\ engine_outcome = "raised"
    /\ written # <<>>
    /\ captures = <<>>
    /\ sys_stdout = 0

\* C3: when the engine raised after writing diagnostic text, the text written
\* during the capture window is handed to the caller (bound to hypothesis_out).
C3_DiagnosticsPreservedOnRaise ==
    (pc = "done" /\ engine_outcome = "raised" /\ written # <<>>) =>
        (hypothesis_out.t = "text" /\ hypothesis_out.v = written)

C4_SubGroup(group) ==
    IF group \in DOMAIN engine_call.kwargs THEN engine_call.kwargs[group].v ELSE EmptyMap
C4_Carries(group, key, value) ==
    IF IsEmptyValue(value) THEN key \notin DOMAIN C4_SubGroup(group)
    ELSE key \in DOMAIN C4_SubGroup(group) /\ C4_SubGroup(group)[key] = value

\* C4: the keyword options runner.execute is called with hold no empty value at
\* either level, hold every field whose value is not empty, and hold a
\* sub-group exactly when one of its fields is not empty.
C4_OptionsPruned ==
    engine_call.called =>
        /\ DOMAIN engine_call.kwargs \subseteq {"api_options", "loader_options"}
        /\ \A g \in DOMAIN engine_call.kwargs :
              /\ ~IsEmptyValue(engine_call.kwargs[g])
              /\ \A k \in DOMAIN engine_call.kwargs[g].v :
                    ~IsEmptyValue(engine_call.kwargs[g].v[k])
        /\ DOMAIN C4_SubGroup("api_options") \subseteq {"base_url", "auth", "headers"}
        /\ DOMAIN C4_SubGroup("loader_options") \subseteq {"endpoint", "method"}
        /\ C4_Carries("api_options", "base_url", args.base_url)
        /\ C4_Carries("api_options", "auth", auth)
        /\ C4_Carries("api_options", "headers", args.headers)
        /\ C4_Carries("loader_options", "endpoint", args.endpoints)
        /\ C4_Carries("loader_options", "method", args.methods)

\* --base-url "" with no auth and no header, and an endpoint filter: the
\* connection sub-group is absent, the loader sub-group holds the filter only
C4_Witness ==
    /\ engine_call.called
    /\ args.base_url = Str("")
    /\ args.auth = None
    /\ args.headers = Dict(EmptyMap)
    /\ args.endpoints # Tuple(<<>>)
    /\ args.methods = Tuple(<<>>)
    /\ DOMAIN engine_call.kwargs = {"loader_options"}
    /\ DOMAIN engine_call.kwargs["loader_options"].v = {"endpoint"}

\* C5 as stated: for `run SCHEMA` the engine is called with all default checks,
\* api_options = {} and loader_options = {}.
C5_SchemaOnlyEmptyGroups ==
    (engine_call.called /\ args.cl = SchemaOnly) =>
        /\ engine_call.checks = DEFAULT_CHECKS
        /\ "api_options" \in DOMAIN engine_call.kwargs
        /\ engine_call.kwargs["api_options"] = Dict(EmptyMap)
        /\ "loader_options" \in DOMAIN engine_call.kwargs
        /\ engine_call.kwargs["loader_options"] = Dict(EmptyMap)

\* C5 amended: for `run SCHEMA` the engine is called with the schema, all
\* default checks and no api_options and no loader_options argument at all, and
\* the exit status is 1 iff a returned outcome record has a true error flag.
C5_SchemaOnlyNoGroups ==
    (engine_call.called /\ args.cl = SchemaOnly) =>
        /\ engine_call.schema = SchemaLocation
        /\ engine_call.checks = DEFAULT_CHECKS
        /\ DOMAIN engine_call.kwargs = {}
        /\ (pc = "done" /\ engine_outcome = "returned") =>
              result = (IF HasErrorRecord(stats.data) THEN "exit1" ELSE "exit0")

\* `run SCHEMA` ran to its end against statistics with an error
C5_Witness ==
    /\ engine_call.called
    /\ args.cl = SchemaOnly
    /\ pc = "done"
    /\ engine_outcome = "returned"
    /\ HasErrorRecord(stats.data)
    /\ result = "exit1"

C6_Expected ==
    IF args.cl.auth = None THEN None
    ELSE IF args.cl.auth_type \in {Str("digest"), Str("DIGEST")}
         THEN HTTPDigestAuth("admin", "secret")
         ELSE Tuple(<<"admin", "secret">>)

\* C6: once lines 83-84 have run, the credential is absent when no --auth was
\* given (whatever the --auth-type), the pair (user, password) when the type is
\* basic or omitted, and the digest wrapper of the pair when the type is digest
\* in any case of letters; this is the `auth` the engine receives.
C6_CredentialResolution ==
    /\ (args.given /\ pc \notin {"line79", "line83"}) => auth = C6_Expected
    /\ engine_call.called =>
          IF C6_Expected = None
          THEN \A g \in DOMAIN engine_call.kwargs : "auth" \notin DOMAIN engine_call.kwargs[g].v
          ELSE /\ "api_options" \in DOMAIN engine_call.kwargs
               /\ "auth" \in DOMAIN engine_call.kwargs["api_options"].v
               /\ engine_call.kwargs["api_options"].v["auth"] = C6_Expected

\* --auth admin:secret --auth-type DIGEST reached the engine as a digest wrapper
C6_Witness ==
    /\ engine_call.called
    /\ args.cl.auth = Str("admin:secret")
    /\ args.cl.auth_type = Str("DIGEST")
    /\ engine_call.kwargs["api_options"].v["auth"] = HTTPDigestAuth("admin", "secret")

C7_Position(name) == CHOOSE i \in 1..Len(DEFAULT_CHECKS) : DEFAULT_CHECKS[i] = name

\* C7: once line 79 has run, the selected checks are exactly the built-in
\* checks whose name was requested, each once and in the order of
\* runner.DEFAULT_CHECKS, whatever the order and repetition of the request; a
\* command line without --checks selects every built-in check, and an empty
\* tuple of names selects none.
C7_CheckSelection ==
    /\ (args.given /\ pc # "line79") =>
          /\ \A i \in 1..Len(DEFAULT_CHECKS) :
                InTuple(DEFAULT_CHECKS[i], selected_checks)
                    <=> InTuple(DEFAULT_CHECKS[i], args.checks)
          /\ \A i \in 1..Len(selected_checks) : InTuple(selected_checks[i], DEFAULT_CHECKS)
          /\ \A i, j \in 1..Len(selected_checks) :
                i < j => C7_Position(selected_checks[i]) < C7_Position(selected_checks[j])
          /\ (args.cl.checks = <<>>) => selected_checks = DEFAULT_CHECKS
    /\ engine_call.called => engine_call.checks = selected_checks
    /\ SelectedChecks(<<>>) = <<>>

\* -c status_code_conformance -c not_a_server_error reached the engine in the
\* engine's order
C7_Witness ==
    /\ engine_call.called
    /\ args.cl.checks = <<"status_code_conformance", "not_a_server_error">>
    /\ engine_call.checks = <<"not_a_server_error", "status_code_conformance">>

\* C8: at most one capture is installed at any time, and the text an invocation
\* reads from its capture is exactly what the engine wrote during this
\* invocation: nothing written in an earlier invocation is in it.
C8_NoLeakAcrossRuns ==
    /\ Len(captures) <= 1
    /\ hypothesis_out.t = "text" =>
          /\ hypothesis_out.v = written
          /\ \A i \in 1..Len(hypothesis_out.v) : hypothesis_out.v[i].run = run

\* a later invocation read its own text after an earlier one wrote and raised
C8_Witness ==
    /\ earlier_raise
    /\ run >= 2
    /\ hypothesis_out.t = "text"
    /\ hypothesis_out.v # <<>>

\* C9: when the engine raised, the invocation is over with the exception
\* propagating: no statistics, no report, no banner, and no exit status 0 or 1.
C9_EngineFailureIsFatal ==
    engine_outcome = "raised" =>
        /\ pc = "done"
        /\ result = "exception"
        /\ ~stats.returned
        /\ \A i \in 1..Len(trace) :
              trace[i] \notin {"report", "echo_blank", "banner_failed", "banner_succeeded"}

\* the engine raised and all that reached the real stdout is the opening line
C9_Witness ==
    /\ engine_outcome = "raised"
    /\ result = "exception"
    /\ trace = <<"echo_running", "acquire", "execute", "release">>

C10_Events(banner) ==
    <<"echo_running", "acquire", "execute", "read", "release", "report", "echo_blank", banner>>

\* C10: when the engine returned, the events happen in the order acquire,
\* execute (once), read, release, report, banner (one); the finished
\* invocation shows the failure banner exactly when its exit status is 1.
C10_EventOrder ==
    engine_outcome = "returned" =>
        /\ \E banner \in {"banner_failed", "banner_succeeded"} :
              /\ IsPrefix(trace, C10_Events(banner))
              /\ pc = "done" => trace = C10_Events(banner)
        /\ pc = "done" =>
              /\ (trace[Len(trace)] = "banner_failed") <=> (result = "exit1")
              /\ (trace[Len(trace)] = "banner_succeeded") <=> (result = "exit0")
              /\ HasErrorRecord(stats.data) => trace[Len(trace)] = "banner_failed"

\* an invocation with a failed endpoint printed the report, then the failure banner
C10_Witness ==
    /\ pc = "done"
    /\ result = "exit1"
    /\ trace = C10_Events("banner_failed")

====
